---- MODULE Spec2Model ----
(***************************************************************************)
(* Model of SecurityController (src/main.py): a single-session,            *)
(* role-checked CRUD store of employee records with a two-stage approval   *)
(* workflow, persisted by whole-collection overwrite.                      *)
(*                                                                         *)
(* Conventions                                                             *)
(*  - Python None for a string field is the value None.                    *)
(*  - An optional object (current_user, a returned record) is a sequence   *)
(*    of length 0 (None) or 1 (the object).                                *)
(*  - A reference to a record held in self.employees is its position in    *)
(*    the list; 0 stands for "no such record".                             *)
(***************************************************************************)
EXTENDS Integers, Sequences, FiniteSets, TLC

\* ---------------------------------------------------------------- bounds
\* Largest collection the model lets create_employee build.
MaxEmployees == 2

\* ------------------------------------------------------------- constants
None == "None"

\* Outcomes of a call: normal return, or the exception raised.
Ok == "ok"
PermCreate == "PermissionError: You do not have permission to create employees"
PermRead == "PermissionError: You do not have permission to read employees"
PermUpdate == "PermissionError: You do not have permission to update employees"
PermUpdateSelf == "PermissionError: Employees can only update their own records"
PermDelete == "PermissionError: You do not have permission to delete employees"
PermManager == "PermissionError: Only managers can approve employees"
PermAdmin == "PermissionError: Only admins can give final approval"
NotFound == "ValueError: Employee not found"
NotPending == "ValueError: Employee is not pending approval"
NeedsManager == "ValueError: Employee needs manager approval first"

\* Contents of data/users.json of an installation: an administrator, a
\* manager, an employee whose username is a record id, an account with a
\* role the policy does not know, a second administrator, and a later
\* duplicate of an earlier username/password pair with another role.
load_users ==
    << [username |-> "admin",   password |-> "admin123",   role |-> "admin"],
       [username |-> "manager", password |-> "manager123", role |-> "manager"],
       [username |-> "1",       password |-> "pw1",        role |-> "employee"],
       [username |-> "guest",   password |-> "guest123",   role |-> "guest"],
       [username |-> "root",    password |-> "root123",    role |-> "admin"],
       [username |-> "1",       password |-> "pw1",        role |-> "admin"] >>

\* Arguments the callers pass.
Logins == {<<"admin", "admin123">>, <<"manager", "manager123">>, <<"1", "pw1">>,
           <<"guest", "guest123">>, <<"root", "root123">>,
           <<"admin", "manager123">>, <<"nobody", "admin123">>}
CreateNames == {"Alice"}
CreatePositions == {"Dev"}
CreateDepartments == {"IT"}
UpdateNames == {None, "X"}
UpdatePositions == {None}
UpdateDepartments == {None}

\* str(n) for a non-negative integer n.
Digits == <<"0", "1", "2", "3", "4", "5", "6", "7", "8", "9">>

RECURSIVE str(_)
str(n) == IF n < 10 THEN Digits[n + 1]
          ELSE str(n \div 10) \o Digits[(n % 10) + 1]

EmployeeIds == {str(i) : i \in 1..MaxEmployees} \cup {"99"}

\* ----------------------------------------------------------------- state
VARIABLES
    current_user,   \* SecurityController.current_user: <<>> or <<user>>
    employees,      \* SecurityController.employees: list of Employee
    disk,           \* data/employees.json: the list under key 'employees'
    last            \* the last call: its name, id argument, outcome, return value

vars == <<current_user, employees, disk, last>>

\* User.__init__ / Admin.__init__
User(username, password, role) ==
    [username |-> username, password |-> password, role |-> role]

Admin(username, password) == User(username, password, "admin")

\* Employee.__init__
Employee(id, name, position, department) ==
    [id |-> id, name |-> name, position |-> position, department |-> department,
     status |-> "pending", manager_approver |-> None, admin_approver |-> None]

\* Variant of to_dict: the admin_approver key is left out.
to_dict_no_admin_approver(emp) ==
    [id |-> emp.id, name |-> emp.name, position |-> emp.position,
     department |-> emp.department, status |-> emp.status,
     manager_approver |-> emp.manager_approver]

\* Employee.to_dict
to_dict(emp) ==
    [id |-> emp.id, name |-> emp.name, position |-> emp.position,
     department |-> emp.department, status |-> emp.status,
     manager_approver |-> emp.manager_approver,
     admin_approver |-> emp.admin_approver]

\* dict.get(key, default)
get(data, key, default) == IF key \in DOMAIN data THEN data[key] ELSE default

\* Employee.from_dict
from_dict(data) ==
    [Employee(data.id, data.name, data.position, data.department)
        EXCEPT !.status = get(data, "status", "pending"),
               !.manager_approver = get(data, "manager_approver", None),
               !.admin_approver = get(data, "admin_approver", None)]

\* SecurityController.save_employees: the file content written for a list.
save_employees(emps) == [i \in 1..Len(emps) |-> to_dict(emps[i])]

\* SecurityController.load_employees: the list read back from file content.
load_employees(file) == [i \in 1..Len(file) |-> from_dict(file[i])]

\* Variant of FirstMatch: the loop keeps going and the last match wins.
FirstMatch_last(users, username, password) ==
    LET hits == {i \in 1..Len(users) :
                    users[i].username = username /\ users[i].password = password}
    IN IF hits = {} THEN 0 ELSE CHOOSE i \in hits : \A j \in hits : i >= j

\* --------------------------------------------------------- authentication
\* The loop of authenticate: position of the first entry of users whose
\* username and password both equal the arguments, 0 when none does.
FirstMatch(users, username, password) ==
    LET hits == {i \in 1..Len(users) :
                    users[i].username = username /\ users[i].password = password}
    IN IF hits = {} THEN 0 ELSE CHOOSE i \in hits : \A j \in hits : i <= j

\* Variant of authenticate: a failed login clears the session.
authenticate_clears(cu, username, password) ==
    LET users == load_users
        i == FirstMatch(users, username, password)
    IN IF i = 0 THEN [user |-> <<>>, result |-> "False"]
       ELSE IF users[i].role = "admin"
            THEN [user |-> <<Admin(username, password)>>, result |-> "True"]
            ELSE [user |-> <<User(username, password, users[i].role)>>,
                  result |-> "True"]

\* SecurityController.authenticate: the new current_user and the return value.
authenticate(cu, username, password) ==
    LET users == load_users
        i == FirstMatch(users, username, password)
    IN IF i = 0 THEN [user |-> cu, result |-> "False"]
       ELSE IF users[i].role = "admin"
            THEN [user |-> <<Admin(username, password)>>, result |-> "True"]
            ELSE [user |-> <<User(username, password, users[i].role)>>,
                  result |-> "True"]

\* Variant of has_permission: update is granted to managers too.
has_permission_update_manager(cu, action, target_employee) ==
    IF cu = <<>> THEN FALSE
    ELSE LET role == cu[1].role IN
         CASE action = "create" -> role = "admin"
           [] action = "read"   -> role \in {"admin", "employee", "manager"}
           [] action = "update" ->
                IF role \in {"admin", "manager"} THEN TRUE
                ELSE IF role = "employee" /\ target_employee # <<>>
                     THEN target_employee[1].id = cu[1].username
                     ELSE FALSE
           [] action = "delete" -> role = "admin"
           [] OTHER -> FALSE

\* Variant of has_permission: delete is granted to managers too.
has_permission_delete_manager(cu, action, target_employee) ==
    IF cu = <<>> THEN FALSE
    ELSE LET role == cu[1].role IN
         CASE action = "create" -> role = "admin"
           [] action = "read"   -> role \in {"admin", "employee", "manager"}
           [] action = "update" ->
                IF role = "admin" THEN TRUE
                ELSE IF role = "employee" /\ target_employee # <<>>
                     THEN target_employee[1].id = cu[1].username
                     ELSE FALSE
           [] action = "delete" -> role \in {"admin", "manager"}
           [] OTHER -> FALSE

\* Variant of has_permission: read is granted to every logged-in role.
has_permission_read_any(cu, action, target_employee) ==
    IF cu = <<>> THEN FALSE
    ELSE LET role == cu[1].role IN
         CASE action = "create" -> role = "admin"
           [] action = "read"   -> TRUE
           [] action = "update" ->
                IF role = "admin" THEN TRUE
                ELSE IF role = "employee" /\ target_employee # <<>>
                     THEN target_employee[1].id = cu[1].username
                     ELSE FALSE
           [] action = "delete" -> role = "admin"
           [] OTHER -> FALSE

\* ---------------------------------------------------------- authorization
\* SecurityController.has_permission
has_permission(cu, action, target_employee) ==
    IF cu = <<>> THEN FALSE
    ELSE LET role == cu[1].role IN
         CASE action = "create" -> role = "admin"
           [] action = "read"   -> role \in {"admin", "employee", "manager"}
           [] action = "update" ->
                IF role = "admin" THEN TRUE
                ELSE IF role = "employee" /\ target_employee # <<>>
                     THEN target_employee[1].id = cu[1].username
                     ELSE FALSE
           [] action = "delete" -> role = "admin"
           [] OTHER -> FALSE

\* ------------------------------------------------------------------- CRUD
\* The loop of read_employee: position of the first record with this id,
\* 0 when there is none.
Find(emps, employee_id) ==
    LET hits == {i \in 1..Len(emps) : emps[i].id = employee_id}
    IN IF hits = {} THEN 0 ELSE CHOOSE i \in hits : \A j \in hits : i <= j

\* Variant of read_employee: an absent id raises instead of returning None.
read_employee_raises(cu, emps, employee_id) ==
    IF ~has_permission(cu, "read", <<>>)
    THEN [result |-> PermRead, ref |-> 0]
    ELSE IF Find(emps, employee_id) = 0
         THEN [result |-> NotFound, ref |-> 0]
         ELSE [result |-> Ok, ref |-> Find(emps, employee_id)]

\* SecurityController.read_employee: outcome and the record referenced.
read_employee(cu, emps, employee_id) ==
    IF ~has_permission(cu, "read", <<>>)
    THEN [result |-> PermRead, ref |-> 0]
    ELSE [result |-> Ok, ref |-> Find(emps, employee_id)]

\* SecurityController.read_employees
read_employees(cu, emps) ==
    IF ~has_permission(cu, "read", <<>>)
    THEN [result |-> PermRead, ret |-> <<>>]
    ELSE [result |-> Ok, ret |-> emps]

\* A call that raised: nothing mutated, nothing saved.
Raise(emps, exc) == [emps |-> emps, saved |-> FALSE, result |-> exc, ret |-> <<>>]

\* A call that returned after save_employees().
Return(emps, ret) == [emps |-> emps, saved |-> TRUE, result |-> Ok, ret |-> ret]

\* list.remove(x) for the element at position i.
Remove(emps, i) == [j \in 1..(Len(emps) - 1) |-> IF j < i THEN emps[j] ELSE emps[j + 1]]

\* Variant of create_employee: the id is the old size, not the old size plus one.
create_employee_len(cu, emps, name, position, department) ==
    IF ~has_permission(cu, "create", <<>>) THEN Raise(emps, PermCreate)
    ELSE LET new_id == str(Len(emps))
             new_employee == Employee(new_id, name, position, department)
         IN Return(Append(emps, new_employee), <<new_employee>>)

\* SecurityController.create_employee
create_employee(cu, emps, name, position, department) ==
    IF ~has_permission(cu, "create", <<>>) THEN Raise(emps, PermCreate)
    ELSE LET new_id == str(Len(emps) + 1)
             new_employee == Employee(new_id, name, position, department)
         IN Return(Append(emps, new_employee), <<new_employee>>)

\* Variant of update_employee: the three field tests are chained with elif,
\* so only the first supplied field is written.
update_employee_elif(cu, emps, employee_id, name, position, department) ==
    IF ~has_permission(cu, "update", <<>>) THEN Raise(emps, PermUpdate)
    ELSE LET r == read_employee(cu, emps, employee_id) IN
         IF r.result # Ok THEN Raise(emps, r.result)
         ELSE IF r.ref = 0 THEN Raise(emps, NotFound)
         ELSE IF cu[1].role = "employee" /\ employee_id # cu[1].username
              THEN Raise(emps, PermUpdateSelf)
         ELSE LET e0 == emps[r.ref]
                  e3 == IF name # None THEN [e0 EXCEPT !.name = name]
                        ELSE IF position # None THEN [e0 EXCEPT !.position = position]
                        ELSE IF department # None THEN [e0 EXCEPT !.department = department]
                        ELSE e0
              IN Return([emps EXCEPT ![r.ref] = e3], <<e3>>)

\* SecurityController.update_employee
update_employee(cu, emps, employee_id, name, position, department) ==
    IF ~has_permission(cu, "update", <<>>) THEN Raise(emps, PermUpdate)
    ELSE LET r == read_employee(cu, emps, employee_id) IN
         IF r.result # Ok THEN Raise(emps, r.result)
         ELSE IF r.ref = 0 THEN Raise(emps, NotFound)
         ELSE IF cu[1].role = "employee" /\ employee_id # cu[1].username
              THEN Raise(emps, PermUpdateSelf)
         ELSE LET e0 == emps[r.ref]
                  e1 == IF name # None THEN [e0 EXCEPT !.name = name] ELSE e0
                  e2 == IF position # None THEN [e1 EXCEPT !.position = position] ELSE e1
                  e3 == IF department # None THEN [e2 EXCEPT !.department = department] ELSE e2
              IN Return([emps EXCEPT ![r.ref] = e3], <<e3>>)

\* Variant of delete_employee: every record with the id is dropped.
delete_employee_all(cu, emps, employee_id) ==
    IF ~has_permission(cu, "delete", <<>>) THEN Raise(emps, PermDelete)
    ELSE LET r == read_employee(cu, emps, employee_id) IN
         IF r.result # Ok THEN Raise(emps, r.result)
         ELSE IF r.ref = 0 THEN Raise(emps, NotFound)
         ELSE Return(SelectSeq(emps, LAMBDA e : e.id # employee_id), <<>>)

\* SecurityController.delete_employee
delete_employee(cu, emps, employee_id) ==
    IF ~has_permission(cu, "delete", <<>>) THEN Raise(emps, PermDelete)
    ELSE LET r == read_employee(cu, emps, employee_id) IN
         IF r.result # Ok THEN Raise(emps, r.result)
         ELSE IF r.ref = 0 THEN Raise(emps, NotFound)
         ELSE Return(Remove(emps, r.ref), <<>>)

\* Variant of approve_employee_by_manager: the approver is recorded but the
\* status is left as it was.
approve_employee_by_manager_nostatus(cu, emps, employee_id) ==
    IF cu = <<>> \/ cu[1].role # "manager" THEN Raise(emps, PermManager)
    ELSE LET r == read_employee(cu, emps, employee_id) IN
         IF r.result # Ok THEN Raise(emps, r.result)
         ELSE IF r.ref = 0 THEN Raise(emps, NotFound)
         ELSE IF emps[r.ref].status # "pending" THEN Raise(emps, NotPending)
         ELSE LET e == [emps[r.ref] EXCEPT !.manager_approver = cu[1].username]
              IN Return([emps EXCEPT ![r.ref] = e], <<e>>)

\* Variant of approve_employee_by_manager: the record is looked up before the
\* role is checked.
approve_employee_by_manager_lookup_first(cu, emps, employee_id) ==
    LET r == read_employee(cu, emps, employee_id) IN
    IF r.result # Ok THEN Raise(emps, r.result)
    ELSE IF r.ref = 0 THEN Raise(emps, NotFound)
    ELSE IF cu = <<>> \/ cu[1].role # "manager" THEN Raise(emps, PermManager)
    ELSE IF emps[r.ref].status # "pending" THEN Raise(emps, NotPending)
    ELSE LET e == [emps[r.ref] EXCEPT !.status = "manager_approved",
                                      !.manager_approver = cu[1].username]
         IN Return([emps EXCEPT ![r.ref] = e], <<e>>)

\* Variant of approve_employee_by_manager: the status of the record is not
\* checked.
approve_employee_by_manager_any_status(cu, emps, employee_id) ==
    IF cu = <<>> \/ cu[1].role # "manager" THEN Raise(emps, PermManager)
    ELSE LET r == read_employee(cu, emps, employee_id) IN
         IF r.result # Ok THEN Raise(emps, r.result)
         ELSE IF r.ref = 0 THEN Raise(emps, NotFound)
         ELSE LET e == [emps[r.ref] EXCEPT !.status = "manager_approved",
                                           !.manager_approver = cu[1].username]
              IN Return([emps EXCEPT ![r.ref] = e], <<e>>)

\* SecurityController.approve_employee_by_manager
approve_employee_by_manager(cu, emps, employee_id) ==
    IF cu = <<>> \/ cu[1].role # "manager" THEN Raise(emps, PermManager)
    ELSE LET r == read_employee(cu, emps, employee_id) IN
         IF r.result # Ok THEN Raise(emps, r.result)
         ELSE IF r.ref = 0 THEN Raise(emps, NotFound)
         ELSE IF emps[r.ref].status # "pending" THEN Raise(emps, NotPending)
         ELSE LET e == [emps[r.ref] EXCEPT !.status = "manager_approved",
                                           !.manager_approver = cu[1].username]
              IN Return([emps EXCEPT ![r.ref] = e], <<e>>)

\* Variant of approve_employee_by_admin: the status of the record is not
\* checked.
approve_employee_by_admin_any_status(cu, emps, employee_id) ==
    IF cu = <<>> \/ cu[1].role # "admin" THEN Raise(emps, PermAdmin)
    ELSE LET r == read_employee(cu, emps, employee_id) IN
         IF r.result # Ok THEN Raise(emps, r.result)
         ELSE IF r.ref = 0 THEN Raise(emps, NotFound)
         ELSE LET e == [emps[r.ref] EXCEPT !.status = "approved",
                                           !.admin_approver = cu[1].username]
              IN Return([emps EXCEPT ![r.ref] = e], <<e>>)

\* Variant of approve_employee_by_admin: the approver recorded is the
\* caller's role, not the caller's username.
approve_employee_by_admin_role(cu, emps, employee_id) ==
    IF cu = <<>> \/ cu[1].role # "admin" THEN Raise(emps, PermAdmin)
    ELSE LET r == read_employee(cu, emps, employee_id) IN
         IF r.result # Ok THEN Raise(emps, r.result)
         ELSE IF r.ref = 0 THEN Raise(emps, NotFound)
         ELSE IF emps[r.ref].status # "manager_approved" THEN Raise(emps, NeedsManager)
         ELSE LET e == [emps[r.ref] EXCEPT !.status = "approved",
                                           !.admin_approver = cu[1].role]
              IN Return([emps EXCEPT ![r.ref] = e], <<e>>)

\* Variant of approve_employee_by_admin: managers may give final approval too.
approve_employee_by_admin_or_manager(cu, emps, employee_id) ==
    IF cu = <<>> \/ cu[1].role \notin {"admin", "manager"} THEN Raise(emps, PermAdmin)
    ELSE LET r == read_employee(cu, emps, employee_id) IN
         IF r.result # Ok THEN Raise(emps, r.result)
         ELSE IF r.ref = 0 THEN Raise(emps, NotFound)
         ELSE IF emps[r.ref].status # "manager_approved" THEN Raise(emps, NeedsManager)
         ELSE LET e == [emps[r.ref] EXCEPT !.status = "approved",
                                           !.admin_approver = cu[1].username]
              IN Return([emps EXCEPT ![r.ref] = e], <<e>>)

\* Variant of approve_employee_by_admin: the approver is not recorded.
approve_employee_by_admin_no_approver(cu, emps, employee_id) ==
    IF cu = <<>> \/ cu[1].role # "admin" THEN Raise(emps, PermAdmin)
    ELSE LET r == read_employee(cu, emps, employee_id) IN
         IF r.result # Ok THEN Raise(emps, r.result)
         ELSE IF r.ref = 0 THEN Raise(emps, NotFound)
         ELSE IF emps[r.ref].status # "manager_approved" THEN Raise(emps, NeedsManager)
         ELSE LET e == [emps[r.ref] EXCEPT !.status = "approved"]
              IN Return([emps EXCEPT ![r.ref] = e], <<e>>)

\* SecurityController.approve_employee_by_admin
approve_employee_by_admin(cu, emps, employee_id) ==
    IF cu = <<>> \/ cu[1].role # "admin" THEN Raise(emps, PermAdmin)
    ELSE LET r == read_employee(cu, emps, employee_id) IN
         IF r.result # Ok THEN Raise(emps, r.result)
         ELSE IF r.ref = 0 THEN Raise(emps, NotFound)
         ELSE IF emps[r.ref].status # "manager_approved" THEN Raise(emps, NeedsManager)
         ELSE LET e == [emps[r.ref] EXCEPT !.status = "approved",
                                           !.admin_approver = cu[1].username]
              IN Return([emps EXCEPT ![r.ref] = e], <<e>>)

\* ---------------------------------------------------------------- actions
Call(op, id, args, result, ret) ==
    [op |-> op, id |-> id, args |-> args, result |-> result, ret |-> ret]

\* A call on the record store: the list, the file when the call saved, and
\* the observation of the call.
Apply(op, id, args, o) ==
    /\ employees' = o.emps
    /\ disk' = IF o.saved THEN save_employees(o.emps) ELSE disk
    /\ last' = Call(op, id, args, o.result, o.ret)
    /\ UNCHANGED current_user

\* SecurityController.__init__ on a machine without data/employees.json
Init ==
    /\ current_user = <<>>
    /\ employees = <<>>
    /\ disk = <<>>
    /\ last = Call("init", None, <<>>, Ok, <<>>)

Authenticate ==
    \E login \in Logins :
        LET username == login[1]
            password == login[2]
            a == authenticate(current_user, username, password) IN
        /\ current_user' = a.user
        /\ last' = Call("authenticate", None, <<username, password>>, a.result, <<>>)
        /\ UNCHANGED <<employees, disk>>

\* controller.current_user = None
Logout ==
    /\ current_user' = <<>>
    /\ last' = Call("logout", None, <<>>, Ok, <<>>)
    /\ UNCHANGED <<employees, disk>>

CreateEmployee ==
    \E name \in CreateNames, position \in CreatePositions,
       department \in CreateDepartments :
        LET o == create_employee(current_user, employees, name, position, department) IN
        /\ Len(o.emps) <= MaxEmployees
        /\ Apply("create", None, <<name, position, department>>, o)

ReadEmployees ==
    LET o == read_employees(current_user, employees) IN
    /\ last' = Call("read_all", None, <<>>, o.result, o.ret)
    /\ UNCHANGED <<current_user, employees, disk>>

ReadEmployee ==
    \E id \in EmployeeIds :
        LET r == read_employee(current_user, employees, id) IN
        /\ last' = Call("read_one", id, <<>>, r.result,
                        IF r.ref = 0 THEN <<>> ELSE <<employees[r.ref]>>)
        /\ UNCHANGED <<current_user, employees, disk>>

UpdateEmployee ==
    \E id \in EmployeeIds, name \in UpdateNames, position \in UpdatePositions,
       department \in UpdateDepartments :
        Apply("update", id, <<name, position, department>>,
              update_employee(current_user, employees, id, name, position, department))

DeleteEmployee ==
    \E id \in EmployeeIds :
        Apply("delete", id, <<>>, delete_employee(current_user, employees, id))

ApproveEmployeeByManager ==
    \E id \in EmployeeIds :
        Apply("approve_by_manager", id, <<>>,
              approve_employee_by_manager(current_user, employees, id))

ApproveEmployeeByAdmin ==
    \E id \in EmployeeIds :
        Apply("approve_by_admin", id, <<>>,
              approve_employee_by_admin(current_user, employees, id))

\* A new process: SecurityController.__init__ reads the file back.
Restart ==
    /\ current_user' = <<>>
    /\ employees' = load_employees(disk)
    /\ last' = Call("init", None, <<>>, Ok, <<>>)
    /\ UNCHANGED disk

Next ==
    \/ Authenticate
    \/ Logout
    \/ CreateEmployee
    \/ ReadEmployees
    \/ ReadEmployee
    \/ UpdateEmployee
    \/ DeleteEmployee
    \/ ApproveEmployeeByManager
    \/ ApproveEmployeeByAdmin
    \/ Restart

Spec == Init /\ [][Next]_vars

\* ------------------------------------------- updates of every field
\* A second specification for update_employee alone: the process starts on
\* a data/employees.json left by earlier runs, and update is called with
\* every combination of supplied and absent fields.
FieldPositions == {None, "Lead"}
FieldDepartments == {None, "HR"}

\* Files left by earlier runs: two records with different ids, one
\* manager_approved and one approved; and two records sharing id "2" (left
\* by create, create, approvals of "2", delete "1", create).
FieldFiles ==
    LET a == [Employee("1", "Alice", "Dev", "IT") EXCEPT
                 !.status = "manager_approved", !.manager_approver = "manager"]
        b == [Employee("2", "Alice", "Dev", "IT") EXCEPT
                 !.status = "approved", !.manager_approver = "manager",
                 !.admin_approver = "root"]
        c == Employee("2", "Alice", "Dev", "IT")
    IN {save_employees(<<a, b>>), save_employees(<<b, c>>)}

\* SecurityController.__init__ on one of these files
InitFields ==
    \E file \in FieldFiles :
        /\ current_user = <<>>
        /\ employees = load_employees(file)
        /\ disk = file
        /\ last = Call("init", None, <<>>, Ok, <<>>)

UpdateEmployeeFields ==
    \E id \in EmployeeIds, name \in UpdateNames, position \in FieldPositions,
       department \in FieldDepartments :
        Apply("update", id, <<name, position, department>>,
              update_employee(current_user, employees, id, name, position, department))

NextFields ==
    \/ Authenticate
    \/ UpdateEmployeeFields

SpecFields == InitFields /\ [][NextFields]_vars

\* ------------------------------------------------------------ properties
\* Role of the session that makes a call; None when nobody is logged in.
Role == IF current_user = <<>> THEN None ELSE current_user[1].role

AuthorizationErrors ==
    {PermCreate, PermRead, PermUpdate, PermUpdateSelf, PermDelete, PermManager, PermAdmin}

\* Some record of emps has this id.
Exists(emps, id) == \E i \in 1..Len(emps) : emps[i].id = id

\* i is the record a lookup of id yields: the first one with that id.
IsLookedUp(emps, id, i) ==
    /\ i \in 1..Len(emps)
    /\ emps[i].id = id
    /\ \A j \in 1..(i - 1) : emps[j].id # id

Unchanged == employees' = employees /\ disk' = disk /\ current_user' = current_user

\* One step of the approval state machine, or none.
Forward(s, t) ==
    \/ t = s
    \/ s = "pending" /\ t = "manager_approved"
    \/ s = "manager_approved" /\ t = "approved"

\* Decimal numerals of the collection sizes the model reaches.
Numeral == <<"1", "2", "3", "4", "5", "6", "7", "8", "9">>

\* C1: under an employee session, update(id, ...) on an existing record
\* succeeds iff the record's id equals the session's username, and fails
\* with an authorization error otherwise.
C1_EmployeeUpdatesOwnRecord ==
    [][(last'.op = "update" /\ Role = "employee" /\ Exists(employees, last'.id))
        => /\ (last'.result = Ok) <=> (last'.id = current_user[1].username)
           /\ last'.result # Ok => last'.result \in AuthorizationErrors]_vars

\* C2: no two records of the collection have the same id.
C2_UniqueIds ==
    \A i, j \in 1..Len(employees) : i # j => employees[i].id # employees[j].id

\* C3: in every step the status of each record stays or advances by exactly
\* one stage (pending -> manager_approved -> approved); records keep their
\* status when another record is appended or removed.
C3_StatusStep ==
    LET n == Len(employees) IN
    /\ Len(employees') \in {n - 1, n, n + 1}
    /\ Len(employees') = n =>
          \A i \in 1..n : Forward(employees[i].status, employees'[i].status)
    /\ Len(employees') = n + 1 =>
          \A i \in 1..n : employees'[i].status = employees[i].status
    /\ Len(employees') = n - 1 =>
          \E k \in 1..n : \A i \in 1..(n - 1) :
              employees'[i].status = employees[IF i < k THEN i ELSE i + 1].status

C3_StatusOnlyAdvances == [][C3_StatusStep]_vars

C3_Witness ==
    /\ last.op = "approve_by_admin"
    /\ last.result = Ok
    /\ \E i \in 1..Len(employees) : employees[i].status = "approved"
    /\ \E i \in 1..Len(employees) : employees[i].status = "pending"

\* C4: a record with admin_approver set is approved, and a record with
\* manager_approver set is manager_approved or approved.
C4_ApproverImpliesStatus ==
    \A i \in 1..Len(employees) :
        /\ employees[i].admin_approver # None => employees[i].status = "approved"
        /\ employees[i].manager_approver # None
              => employees[i].status \in {"manager_approved", "approved"}

C4_Witness ==
    \E i, j \in 1..Len(employees) :
        /\ employees[i].admin_approver # None
        /\ employees[j].manager_approver # None
        /\ employees[j].admin_approver = None

\* C5: create and delete called without an admin session fail with an
\* authorization error and leave the collection as it was.
C5_OnlyAdminCreatesAndDeletes ==
    [][(last'.op \in {"create", "delete"} /\ Role # "admin")
        => last'.result \in AuthorizationErrors /\ Unchanged]_vars

C5_Witness ==
    /\ last.op = "delete"
    /\ last.result = PermDelete
    /\ Role = "manager"
    /\ Exists(employees, last.id)

\* C6: read_all and read_one return normally iff the session's role is
\* admin, manager or employee, and raise the read authorization error
\* otherwise.
C6_ReadPermission ==
    [][last'.op \in {"read_all", "read_one"}
        => /\ (last'.result = Ok) <=> (Role \in {"admin", "manager", "employee"})
           /\ last'.result # Ok => last'.result = PermRead]_vars

C6_Witness ==
    /\ last.op = "read_one"
    /\ last.result = PermRead
    /\ Role = "guest"
    /\ Exists(employees, last.id)

\* C7: an approval called under the wrong role (or no session) raises the
\* authorization error, whatever the id and the record's status, and changes
\* nothing.
C7_ApprovalRoleCheckFirst ==
    [][/\ (last'.op = "approve_by_manager" /\ Role # "manager")
            => last'.result = PermManager /\ Unchanged
       /\ (last'.op = "approve_by_admin" /\ Role # "admin")
            => last'.result = PermAdmin /\ Unchanged]_vars

C7_Witness ==
    /\ last.op = "approve_by_manager"
    /\ last.result = PermManager
    /\ Role = "admin"
    /\ ~Exists(employees, last.id)

\* C8: approve_by_manager(id) under a manager session raises not-found when
\* no record has the id, raises invalid-state when the looked-up record is
\* not pending, and otherwise changes exactly the status and manager_approver
\* of that record.
C8_ManagerApproval ==
    [][(last'.op = "approve_by_manager" /\ Role = "manager") =>
         /\ ~Exists(employees, last'.id) => last'.result = NotFound /\ Unchanged
         /\ \A i \in 1..Len(employees) : IsLookedUp(employees, last'.id, i) =>
              IF employees[i].status # "pending"
              THEN last'.result = NotPending /\ Unchanged
              ELSE /\ last'.result = Ok
                   /\ employees' = [employees EXCEPT
                          ![i].status = "manager_approved",
                          ![i].manager_approver = current_user[1].username]
                   /\ current_user' = current_user]_vars

C8_Witness ==
    /\ last.op = "approve_by_manager"
    /\ last.result = Ok
    /\ Len(employees) = 2
    /\ employees[1].id = employees[2].id
    /\ employees[1].status = "manager_approved"
    /\ employees[2].status = "pending"

\* C9: approve_by_admin(id) under an admin session raises not-found when no
\* record has the id, raises invalid-state when the looked-up record is not
\* manager_approved, and otherwise changes exactly the status and
\* admin_approver of that record.
C9_AdminApproval ==
    [][(last'.op = "approve_by_admin" /\ Role = "admin") =>
         /\ ~Exists(employees, last'.id) => last'.result = NotFound /\ Unchanged
         /\ \A i \in 1..Len(employees) : IsLookedUp(employees, last'.id, i) =>
              IF employees[i].status # "manager_approved"
              THEN last'.result = NeedsManager /\ Unchanged
              ELSE /\ last'.result = Ok
                   /\ employees' = [employees EXCEPT
                          ![i].status = "approved",
                          ![i].admin_approver = current_user[1].username]
                   /\ employees'[i].manager_approver = employees[i].manager_approver
                   /\ current_user' = current_user]_vars

C9_Witness ==
    /\ last.op = "approve_by_admin"
    /\ last.result = Ok
    /\ Len(employees) = 2
    /\ \E i \in 1..2 : /\ employees[i].id = last.id
                       /\ employees[i].status = "approved"
                       /\ employees[i].admin_approver = "root"
                       /\ employees[i].manager_approver = "manager"

\* C10: create under an admin session appends one record whose id is the
\* decimal numeral of the old size plus one, pending and without approvers,
\* after the unchanged old records.
C10_CreateAppends ==
    [][(last'.op = "create" /\ Role = "admin") =>
         LET n == Len(employees) IN
         /\ last'.result = Ok
         /\ Len(employees') = n + 1
         /\ SubSeq(employees', 1, n) = employees
         /\ employees'[n + 1] =
               [id |-> Numeral[n + 1], name |-> last'.args[1],
                position |-> last'.args[2], department |-> last'.args[3],
                status |-> "pending", manager_approver |-> None,
                admin_approver |-> None]
         /\ n = 0 => employees'[1].id = "1"]_vars

C10_Witness ==
    /\ last.op = "create"
    /\ last.result = Ok
    /\ Len(employees) = 2
    /\ employees[1].status = "approved"

\* C11: delete(id) under an admin session raises not-found and changes
\* nothing when no record has the id; otherwise it takes exactly one record
\* out of the list, one with that id, and keeps the others in their order.
C11_DeleteRemovesOne ==
    [][(last'.op = "delete" /\ Role = "admin") =>
         /\ ~Exists(employees, last'.id) => last'.result = NotFound /\ Unchanged
         /\ Exists(employees, last'.id) =>
              /\ last'.result = Ok
              /\ Len(employees') = Len(employees) - 1
              /\ \E k \in 1..Len(employees) :
                    /\ employees[k].id = last'.id
                    /\ \A i \in 1..Len(employees') :
                          employees'[i] = employees[IF i < k THEN i ELSE i + 1]
              /\ current_user' = current_user]_vars

C11_Witness ==
    /\ last.op = "delete"
    /\ last.result = Ok
    /\ Len(employees) = 1
    /\ employees[1].id = last.id

\* The value a field has after update was called with argument arg.
Written(old, arg) == IF arg # None THEN arg ELSE old

\* C12: update(id, fields) under an admin session raises not-found and
\* changes nothing when no record has the id; otherwise it writes exactly
\* the supplied fields among name, position and department of the looked-up
\* record and leaves its id, status and approvers, and every other record,
\* as they were.
C12_UpdateWritesSuppliedFields ==
    [][(last'.op = "update" /\ Role = "admin") =>
         /\ ~Exists(employees, last'.id) => last'.result = NotFound /\ Unchanged
         /\ \A i \in 1..Len(employees) : IsLookedUp(employees, last'.id, i) =>
              /\ last'.result = Ok
              /\ Len(employees') = Len(employees)
              /\ \A j \in 1..Len(employees) : j # i => employees'[j] = employees[j]
              /\ employees'[i].name = Written(employees[i].name, last'.args[1])
              /\ employees'[i].position = Written(employees[i].position, last'.args[2])
              /\ employees'[i].department = Written(employees[i].department, last'.args[3])
              /\ employees'[i].id = employees[i].id
              /\ employees'[i].status = employees[i].status
              /\ employees'[i].manager_approver = employees[i].manager_approver
              /\ employees'[i].admin_approver = employees[i].admin_approver
              /\ current_user' = current_user]_vars

C12_Witness ==
    /\ last.op = "update"
    /\ last.result = Ok
    /\ last.args = <<None, "Lead", "HR">>
    /\ Len(employees) = 2
    /\ employees[1].id = last.id
    /\ employees[2].id = last.id
    /\ employees[1].name = "X"
    /\ employees[1].position = "Lead"
    /\ employees[1].department = "HR"
    /\ employees[1].status = "approved"
    /\ employees[2].position = "Dev"

\* C13: update called under a manager session raises the authorization
\* error for every id, existing or not, and changes nothing.
C13_ManagerUpdateDenied ==
    [][(last'.op = "update" /\ Role = "manager")
        => last'.result \in AuthorizationErrors /\ Unchanged]_vars

C13_Witness ==
    /\ last.op = "update"
    /\ last.result = PermUpdate
    /\ last.args[1] = "X"
    /\ Role = "manager"
    /\ Exists(employees, last.id)

\* Two records agree in id, fields, status and approvers.
SameRecord(e, f) ==
    /\ e.id = f.id
    /\ e.name = f.name
    /\ e.position = f.position
    /\ e.department = f.department
    /\ e.status = f.status
    /\ e.manager_approver = f.manager_approver
    /\ e.admin_approver = f.admin_approver

\* Two collections hold the same records in the same order.
SameCollection(a, b) ==
    /\ Len(a) = Len(b)
    /\ \A i \in 1..Len(a) : SameRecord(a[i], b[i])

\* C14: after every call the collection read back from the file is the
\* in-memory collection, record by record and in order, and saving the
\* in-memory collection and loading it again gives it back.
C14_PersistedEqualsMemory ==
    /\ SameCollection(load_employees(disk), employees)
    /\ SameCollection(load_employees(save_employees(employees)), employees)

C14_Witness ==
    /\ last.op = "init"
    /\ Len(employees) = 2
    /\ employees[1].admin_approver = "root"
    /\ employees[2].name = "X"
    /\ employees[2].status = "manager_approved"

\* C15: read_one(id) under a session with read permission returns normally,
\* with a record of the collection whose id is the argument when there is
\* one and with None when there is none; a read changes neither the
\* collection nor the session; and a read_one(id) that directly follows a
\* read_one(id) returns what the first returned.
C15_ReadOne ==
    [][/\ last'.op \in {"read_one", "read_all"} => Unchanged
       /\ (last'.op = "read_one" /\ Role \in {"admin", "manager", "employee"}) =>
            /\ last'.result = Ok
            /\ Exists(employees, last'.id) =>
                  /\ Len(last'.ret) = 1
                  /\ last'.ret[1].id = last'.id
                  /\ \E i \in 1..Len(employees) : employees[i] = last'.ret[1]
            /\ ~Exists(employees, last'.id) => last'.ret = <<>>
       /\ (last.op = "read_one" /\ last'.op = "read_one" /\ last'.id = last.id) =>
            last'.result = last.result /\ last'.ret = last.ret]_vars

C15_Witness ==
    /\ last.op = "read_one"
    /\ last.result = Ok
    /\ last.ret = <<>>
    /\ Role = "employee"
    /\ Len(employees) = 2

\* C16: authenticate(username, password) returns True iff some entry of the
\* credential list has exactly that username and that password; it then
\* makes the session the one identity with that username and the role of
\* the first such entry.  The session never holds more than one identity.
C16_Authenticate ==
    [][last'.op = "authenticate" =>
         LET users == load_users
             matches == {i \in 1..Len(users) :
                            /\ users[i].username = last'.args[1]
                            /\ users[i].password = last'.args[2]}
         IN /\ (last'.result = "True") <=> (matches # {})
            /\ last'.result \in {"True", "False"}
            /\ Len(current_user') <= 1
            /\ matches # {} =>
                 /\ Len(current_user') = 1
                 /\ current_user'[1].username = last'.args[1]
                 /\ \E i \in matches :
                       /\ \A j \in matches : i <= j
                       /\ current_user'[1].role = users[i].role]_vars

C16_Witness ==
    /\ last.op = "authenticate"
    /\ last.result = "True"
    /\ last.args = <<"1", "pw1">>
    /\ Role = "employee"

\* C17: after a delete(id) that returned normally no record with that id
\* is left in the collection.
C17_DeletedIdIsGone ==
    (last.op = "delete" /\ last.result = Ok) => ~Exists(employees, last.id)

\* What one step may do to a record that is in the list before (e) and
\* after (f) it: the approval stages are entered only under the matching
\* role, which records the caller as approver; otherwise status and
\* approvers stay.
ApprovalStep(e, f) ==
    \/ /\ f.status = e.status
       /\ f.manager_approver = e.manager_approver
       /\ f.admin_approver = e.admin_approver
    \/ /\ e.status = "pending"
       /\ f.status = "manager_approved"
       /\ Role = "manager"
       /\ f.manager_approver = current_user[1].username
       /\ f.admin_approver = e.admin_approver
    \/ /\ e.status = "manager_approved"
       /\ f.status = "approved"
       /\ Role = "admin"
       /\ f.admin_approver = current_user[1].username
       /\ f.manager_approver = e.manager_approver

\* Usernames that authenticate into a session of this role.
NamesOfRole(role) ==
    {load_users[i].username : i \in {j \in 1..Len(load_users) :
        /\ load_users[j].role = role
        /\ \A k \in 1..(j - 1) :
              ~(/\ load_users[k].username = load_users[j].username
                /\ load_users[k].password = load_users[j].password)}}

\* C18: a record enters manager_approved only in a step of a manager
\* session and approved only in a later step of an admin session, each
\* recording the caller's username, and nothing else touches status or
\* approvers; a new record starts pending; so every approved record carries
\* a manager's and an admin's username, and sessions of one role alone never
\* take a record from pending to approved.
C18_SeparationOfDuties ==
    [][LET n == Len(employees) IN
       /\ Len(employees') \in {n - 1, n, n + 1}
       /\ Len(employees') = n =>
             \A i \in 1..n : ApprovalStep(employees[i], employees'[i])
       /\ Len(employees') = n + 1 =>
             /\ \A i \in 1..n : employees'[i] = employees[i]
             /\ employees'[n + 1].status = "pending"
       /\ Len(employees') = n - 1 =>
             \E k \in 1..n : \A i \in 1..(n - 1) :
                 employees'[i] = employees[IF i < k THEN i ELSE i + 1]
       /\ \A i \in 1..Len(employees') : employees'[i].status = "approved" =>
             /\ employees'[i].manager_approver \in NamesOfRole("manager")
             /\ employees'[i].admin_approver \in NamesOfRole("admin")]_vars

C18_Witness ==
    /\ last.op = "approve_by_admin"
    /\ last.result = Ok
    /\ Role = "admin"
    /\ \E i \in 1..Len(employees) :
          /\ employees[i].status = "approved"
          /\ employees[i].manager_approver = "manager"
          /\ employees[i].admin_approver = "admin"
          /\ current_user[1].username = "admin"

\* C19: a pending record has no approver, a manager_approved record has a
\* manager_approver and no admin_approver, an approved record has both.
C19_StatusDeterminesApprovers ==
    \A i \in 1..Len(employees) :
        LET e == employees[i] IN
        /\ e.status \in {"pending", "manager_approved", "approved"}
        /\ e.status = "pending" =>
              e.manager_approver = None /\ e.admin_approver = None
        /\ e.status = "manager_approved" =>
              e.manager_approver # None /\ e.admin_approver = None
        /\ e.status = "approved" =>
              e.manager_approver # None /\ e.admin_approver # None

C19_Witness ==
    \E i, j \in 1..Len(employees) :
        /\ employees[i].status = "pending"
        /\ employees[i].manager_approver = None
        /\ employees[j].status = "approved"
        /\ employees[j].manager_approver # None
        /\ employees[j].admin_approver # None

\* C20: authenticate leaves the collection and the file as they were, and
\* an authenticate that returns False leaves the session as it was.
C20_FailedLoginKeepsSession ==
    [][last'.op = "authenticate" =>
         /\ employees' = employees
         /\ disk' = disk
         /\ last'.result = "False" => current_user' = current_user]_vars

C20_Witness ==
    /\ last.op = "authenticate"
    /\ last.result = "False"
    /\ Role = "manager"
    /\ Len(employees) = 1

====
